---- MODULE Spec2Model ----
(***************************************************************************)
(* Model of analysis/generate_plots.py of ledgerops: the report renderer   *)
(* that draws the p95-latency, abort-rate and throughput charts of a       *)
(* benchmark run, saves each as a PNG and prints a confirmation line.      *)
(*                                                                         *)
(* Numbers are fixed-point: a metric value v stands for v / 1000, so       *)
(* 39.88 is 39880 and 1.79 is 1790.  Text is modelled as text: the format  *)
(* operators build the very strings that Python's % and f-string           *)
(* formatting build.                                                       *)
(*                                                                         *)
(* The script holds its data as literals (lines 5-8).  The loading of the  *)
(* scenario table from per-scenario files, with its warning and its        *)
(* empty-table exit, belongs to the sibling variants of the script and is  *)
(* modelled from the specification (LoadScenario, CheckEmpty); a table     *)
(* whose sources are all present is the embedded-literal mode of the       *)
(* script itself.                                                          *)
(***************************************************************************)
EXTENDS Integers, Sequences, FiniteSets, TLC

(***************************************************************************)
(* Bounds of the model.                                                    *)
(***************************************************************************)
MaxScenarios == 2
MaxRuns == 2

(***************************************************************************)
(* Program constants.                                                      *)
(***************************************************************************)
Dpi == 300
Ylim1 == 180
Ylim2 == 100
Ylim3 == 600

color_primary == "#40826D"
color_stress == "#D9534F"
color_scale == "#337AB7"

F6 == "fig06_latency.png"
F7 == "fig07_abort.png"
F8 == "fig08_throughput.png"
FileNames == {F6, F7, F8}

(* The files in the order the script saves them. *)
OutputOrder == <<F6, F7, F8>>

(***************************************************************************)
(* The metric records.  Golden is the table of the script (lines 5-8);     *)
(* Mixed is a third record whose values carry more precision than the      *)
(* formats print, so that rounding happens.  No value has a decimal        *)
(* expansion ending in a 5 one place beyond a format's precision, where    *)
(* the outcome would depend on the binary representation of the float.     *)
(***************************************************************************)
Uniform == [label |-> "Uniform (10 VU)", source |-> "uniform.json",
            p95 |-> 39880, abort |-> 1790, tput |-> 326500]
HotSpot == [label |-> "Hot-Spot (50 VU)", source |-> "hotspot.json",
            p95 |-> 145270, abort |-> 87400, tput |-> 527200]
Mixed == [label |-> "Mixed (25 VU)", source |-> "mixed.json",
          p95 |-> 99996, abort |-> 12346, tput |-> 400000]
Golden == <<Uniform, HotSpot>>
Pool == {Uniform, HotSpot, Mixed}

Injective(s) == \A i, j \in 1..Len(s) : s[i].label = s[j].label => i = j

(* Scenario tables: ordered, labels unique within a run. *)
Tables == UNION {{s \in [1..n -> Pool] : Injective(s)} : n \in 1..MaxScenarios}

(***************************************************************************)
(* Formatting.                                                             *)
(***************************************************************************)
Digit == <<"0", "1", "2", "3", "4", "5", "6", "7", "8", "9">>

RECURSIVE NatStr(_)
NatStr(n) == IF n < 10 THEN Digit[n + 1] ELSE NatStr(n \div 10) \o Digit[(n % 10) + 1]

(* '%.2f' % v: round to hundredths, print both decimals. *)
Fmt2f(v) ==
    LET r == (v + 5) \div 10
    IN NatStr(r \div 100) \o "." \o Digit[((r \div 10) % 10) + 1] \o Digit[(r % 10) + 1]

(* '%.1f' % v: round to tenths, print the one decimal. *)
Fmt1f(v) ==
    LET r == (v + 50) \div 100
    IN NatStr(r \div 10) \o "." \o Digit[(r % 10) + 1]

(* repr of a float, as an f-string prints it: the shortest decimal, which *)
(* keeps at least one digit after the point. *)
FloatRepr(v) ==
    LET ip == v \div 1000
        fr == v % 1000
        frac == IF fr % 100 = 0 THEN Digit[(fr \div 100) + 1]
                ELSE IF fr % 10 = 0
                     THEN Digit[(fr \div 100) + 1] \o Digit[((fr \div 10) % 10) + 1]
                     ELSE Digit[(fr \div 100) + 1] \o Digit[((fr \div 10) % 10) + 1]
                          \o Digit[(fr % 10) + 1]
    IN NatStr(ip) \o "." \o frac

(* fmt % v, for the format strings in use: a %.Nf conversion, then the *)
(* literal text, in which %% stands for a percent sign. *)
PercentFormat(fmt, v) ==
    CASE fmt = "%.2f ms" -> Fmt2f(v) \o " ms"
      [] fmt = "%.2f%%" -> Fmt2f(v) \o "%"
      [] fmt = "%.1f%%" -> Fmt1f(v) \o "%"

(* fmt='%.2f ms' of ax1.bar_label. *)
FmtLatency == "%.2f ms"

(* A variant of FmtAbort: one decimal. *)
FmtAbortOneDecimal == "%.1f%%"

(* fmt='%.2f%%' of ax2.bar_label. *)
FmtAbort == "%.2f%%"

(* f"{txt} RPS" of the annotate loop. *)
FmtThroughput(v) == FloatRepr(v) \o " RPS"

(***************************************************************************)
(* State.                                                                  *)
(*   table, present  the scenario table given to the run and, per          *)
(*                   scenario, whether its source is there to be read      *)
(*   files           the output directory: file name -> content (no file,  *)
(*                   a file left from before, an incomplete file, or an    *)
(*                   image)                                                *)
(*   run, okRuns     the number of this invocation; how many invocations   *)
(*                   have ended with exit status 0                         *)
(*   after1          the output directory as the first successful          *)
(*                   invocation left it                                    *)
(*   pc, li          position of the running process                       *)
(*   loaded          the in-memory metric table                            *)
(*   figs, current   pyplot's figures and the index of its current figure  *)
(*   ax              the figures that ax1, ax2, ax3 are bound to (0: none) *)
(*   stdout          the lines printed by this invocation                  *)
(*   written         the files saved by this invocation, in order          *)
(*   exit            exit status, -1 while the process runs                *)
(*   failedAt        the chart whose rendering raised (0: none)            *)
(***************************************************************************)
VARIABLES table, present, files, run, okRuns, after1,
          pc, li, loaded, figs, current, ax, stdout, written, exit, failedAt

input == <<table, present>>
vars == <<table, present, files, run, okRuns, after1,
          pc, li, loaded, figs, current, ax, stdout, written, exit, failedAt>>

NoFile == [state |-> "absent"]
Stale == [state |-> "stale"]
Partial == [state |-> "partial"]
Image(fig, dpi) == [state |-> "image", chart |-> fig, dpi |-> dpi]

(***************************************************************************)
(* The module-level data of the script.                                    *)
(***************************************************************************)
scenarios == [i \in 1..Len(loaded) |-> loaded[i].label]
(* A variant of p95_latency: the column read from the table as given. *)
p95_latency_table == [i \in 1..Len(table) |-> table[i].p95]

p95_latency == [i \in 1..Len(loaded) |-> loaded[i].p95]
abort_rates == [i \in 1..Len(loaded) |-> loaded[i].abort]
throughput == [i \in 1..Len(loaded) |-> loaded[i].tput]

(* x = np.arange(len(scenarios)) *)
x == [i \in 1..Len(scenarios) |-> i - 1]

(***************************************************************************)
(* The charting library, as far as the script uses it.                     *)
(***************************************************************************)
EmptyFigure ==
    [kind |-> "empty", color |-> "", ylabel |-> "", ylim |-> 0,
     xticks |-> <<>>, xticklabels |-> <<>>, marks |-> <<>>, texts |-> <<>>]

(* A variant of Bar: the last position is left out. *)
BarDropLast(fig, xs, heights, c) ==
    [fig EXCEPT !.kind = "bar", !.color = c,
                !.marks = [i \in 1..(Len(xs) - 1) |-> [x |-> xs[i], y |-> heights[i]]]]

(* ax.bar(xs, heights, width, color=c): one rectangle per position. *)
Bar(fig, xs, heights, c) ==
    [fig EXCEPT !.kind = "bar", !.color = c,
                !.marks = [i \in 1..Len(xs) |-> [x |-> xs[i], y |-> heights[i]]]]

(* ax.set_ylabel, ax.set_xticks, ax.set_xticklabels, ax.set_ylim. *)
SetAxes(fig, ylabel, ticks, ticklabels, ylim) ==
    [fig EXCEPT !.ylabel = ylabel, !.xticks = ticks,
                !.xticklabels = ticklabels, !.ylim = ylim]

(* ax.bar_label(rects, fmt=...): a text per rectangle, of its height. *)
BarLabel(fig, fmt) ==
    [fig EXCEPT !.texts = [i \in 1..Len(fig.marks) |->
        [x |-> fig.marks[i].x, y |-> fig.marks[i].y,
         s |-> PercentFormat(fmt, fig.marks[i].y)]]]

(* The categories of a string axis: the distinct values, first seen first. *)
RECURSIVE Unique(_)
Unique(s) ==
    IF s = <<>> THEN <<>>
    ELSE LET u == Unique(SubSeq(s, 1, Len(s) - 1))
             last == s[Len(s)]
         IN IF \E i \in 1..Len(u) : u[i] = last THEN u ELSE Append(u, last)

(* The position a string axis gives a category. *)
CatPos(cats, c) == (CHOOSE i \in 1..Len(cats) : cats[i] = c) - 1

(* ax.plot(xs, ys, marker='o', ...) over a string axis, with set_ylabel *)
(* and set_ylim: one point per entry, the categories as tick labels. *)
Plot(fig, xs, ys, c, ylabel, ylim) ==
    LET cats == Unique(xs)
    IN [fig EXCEPT !.kind = "line", !.color = c, !.ylabel = ylabel, !.ylim = ylim,
                   !.xticks = [i \in 1..Len(cats) |-> i - 1],
                   !.xticklabels = cats,
                   !.marks = [i \in 1..Len(xs) |-> [x |-> CatPos(cats, xs[i]), y |-> ys[i]]]]

(* A variant of Annotate: every label reads the first value. *)
AnnotateFirstValue(fig, xs, ys) ==
    [fig EXCEPT !.texts = [i \in 1..Len(ys) |->
        [x |-> CatPos(fig.xticklabels, xs[i]), y |-> ys[i], s |-> FmtThroughput(ys[1])]]]

(* for i, txt in enumerate(ys): ax.annotate(f"{txt} RPS", (xs[i], ys[i])) *)
Annotate(fig, xs, ys) ==
    [fig EXCEPT !.texts = [i \in 1..Len(ys) |->
        [x |-> CatPos(fig.xticklabels, xs[i]), y |-> ys[i], s |-> FmtThroughput(ys[i])]]]

(* A variant of SaveFig: a file that is there is left as it is. *)
SaveFigKeepExisting(name, dpi) ==
    IF files[name] = NoFile
    THEN [files EXCEPT ![name] = Image(figs[current], dpi)]
    ELSE files

(* A variant of SaveFig: the first figure is saved, not the current one. *)
SaveFigFirst(name, dpi) == [files EXCEPT ![name] = Image(figs[1], dpi)]

(* plt.savefig(name, dpi=...): the current figure, written over the file. *)
SaveFig(name, dpi) == [files EXCEPT ![name] = Image(figs[current], dpi)]

(* The line print("Generated <name>") writes. *)
Generated(name) == "Generated " \o name

(* The warning for a source that is not there. *)
Warning(rec) == "Warning: " \o rec.source \o " not found. Skipping."

(***************************************************************************)
(* Initial state: a scenario table, the sources that are there, an output  *)
(* directory in which any of the three files may be left from before, and  *)
(* a process about to start.                                               *)
(***************************************************************************)
Init ==
    /\ table \in Tables
    /\ present \in [1..Len(table) -> BOOLEAN]
    /\ \E old \in SUBSET FileNames :
          files = [f \in FileNames |-> IF f \in old THEN Stale ELSE NoFile]
    /\ run = 1
    /\ okRuns = 0
    /\ after1 = [f \in FileNames |-> NoFile]
    /\ pc = "load"
    /\ li = 1
    /\ loaded = <<>>
    /\ figs = <<>>
    /\ current = 0
    /\ ax = <<0, 0, 0>>
    /\ stdout = <<>>
    /\ written = <<>>
    /\ exit = -1
    /\ failedAt = 0

(***************************************************************************)
(* Load metrics: one scenario per step, in table order.  A source that is  *)
(* not there is reported and its scenario left out.                        *)
(***************************************************************************)
LoadScenario ==
    /\ pc = "load"
    /\ li <= Len(table)
    /\ IF present[li]
       THEN loaded' = Append(loaded, table[li]) /\ stdout' = stdout
       ELSE loaded' = loaded /\ stdout' = Append(stdout, Warning(table[li]))
    /\ li' = li + 1
    /\ UNCHANGED <<input, files, run, okRuns, after1,
                   pc, figs, current, ax, written, exit, failedAt>>

(* A variant of CheckEmpty: rendering starts whatever was loaded. *)
CheckEmptySkipped ==
    /\ pc = "load"
    /\ li > Len(table)
    /\ pc' = "subplots1"
    /\ UNCHANGED <<input, files, run, okRuns, after1,
                   li, loaded, figs, current, ax, stdout, written, exit, failedAt>>

(* The end of loading: an empty table ends the run, with status 0. *)
CheckEmpty ==
    /\ pc = "load"
    /\ li > Len(table)
    /\ IF loaded = <<>>
       THEN /\ stdout' = Append(stdout, "No data found.")
            /\ pc' = "done"
            /\ exit' = 0
            /\ okRuns' = okRuns + 1
            /\ after1' = IF okRuns = 0 THEN files ELSE after1
       ELSE /\ pc' = "subplots1"
            /\ UNCHANGED <<stdout, exit, okRuns, after1>>
    /\ UNCHANGED <<input, files, run, li, loaded, figs, current, ax, written, failedAt>>

(***************************************************************************)
(* Figure 5.1: latency.                                                    *)
(***************************************************************************)
Subplots1 ==
    /\ pc = "subplots1"
    /\ figs' = Append(figs, EmptyFigure)
    /\ current' = Len(figs) + 1
    /\ ax' = [ax EXCEPT ![1] = Len(figs) + 1]
    /\ pc' = "bar1"
    /\ UNCHANGED <<input, files, run, okRuns, after1, li, loaded, stdout, written, exit, failedAt>>

Bar1 ==
    /\ pc = "bar1"
    /\ figs' = [figs EXCEPT ![ax[1]] =
                  SetAxes(Bar(@, x, p95_latency, color_primary),
                          "p95 Latency (ms)", x, scenarios, Ylim1)]
    /\ pc' = "bar_label1"
    /\ UNCHANGED <<input, files, run, okRuns, after1,
                   li, loaded, current, ax, stdout, written, exit, failedAt>>

BarLabel1 ==
    /\ pc = "bar_label1"
    /\ figs' = [figs EXCEPT ![ax[1]] = BarLabel(@, FmtLatency)]
    /\ pc' = "savefig1"
    /\ UNCHANGED <<input, files, run, okRuns, after1,
                   li, loaded, current, ax, stdout, written, exit, failedAt>>

Savefig1 ==
    /\ pc = "savefig1"
    /\ files' = SaveFig(F6, Dpi)
    /\ written' = Append(written, F6)
    /\ pc' = "print1"
    /\ UNCHANGED <<input, run, okRuns, after1,
                   li, loaded, figs, current, ax, stdout, exit, failedAt>>

Print1 ==
    /\ pc = "print1"
    /\ stdout' = Append(stdout, Generated(F6))
    /\ pc' = "subplots2"
    /\ UNCHANGED <<input, files, run, okRuns, after1,
                   li, loaded, figs, current, ax, written, exit, failedAt>>

(***************************************************************************)
(* Figure 5.2: abort rate.                                                 *)
(***************************************************************************)
Subplots2 ==
    /\ pc = "subplots2"
    /\ figs' = Append(figs, EmptyFigure)
    /\ current' = Len(figs) + 1
    /\ ax' = [ax EXCEPT ![2] = Len(figs) + 1]
    /\ pc' = "bar2"
    /\ UNCHANGED <<input, files, run, okRuns, after1, li, loaded, stdout, written, exit, failedAt>>

Bar2 ==
    /\ pc = "bar2"
    /\ figs' = [figs EXCEPT ![ax[2]] =
                  SetAxes(Bar(@, x, abort_rates, color_stress),
                          "Abort Rate (%)", x, scenarios, Ylim2)]
    /\ pc' = "bar_label2"
    /\ UNCHANGED <<input, files, run, okRuns, after1,
                   li, loaded, current, ax, stdout, written, exit, failedAt>>

BarLabel2 ==
    /\ pc = "bar_label2"
    /\ figs' = [figs EXCEPT ![ax[2]] = BarLabel(@, FmtAbort)]
    /\ pc' = "savefig2"
    /\ UNCHANGED <<input, files, run, okRuns, after1,
                   li, loaded, current, ax, stdout, written, exit, failedAt>>

(* A variant of Savefig2: the file name of the first chart. *)
Savefig2WrongName ==
    /\ pc = "savefig2"
    /\ files' = SaveFig(F6, Dpi)
    /\ written' = Append(written, F6)
    /\ pc' = "print2"
    /\ UNCHANGED <<input, run, okRuns, after1,
                   li, loaded, figs, current, ax, stdout, exit, failedAt>>

Savefig2 ==
    /\ pc = "savefig2"
    /\ files' = SaveFig(F7, Dpi)
    /\ written' = Append(written, F7)
    /\ pc' = "print2"
    /\ UNCHANGED <<input, run, okRuns, after1,
                   li, loaded, figs, current, ax, stdout, exit, failedAt>>

(* A variant of Print2: the line of the first chart. *)
Print2CopyPaste ==
    /\ pc = "print2"
    /\ stdout' = Append(stdout, Generated(F6))
    /\ pc' = "subplots3"
    /\ UNCHANGED <<input, files, run, okRuns, after1,
                   li, loaded, figs, current, ax, written, exit, failedAt>>

Print2 ==
    /\ pc = "print2"
    /\ stdout' = Append(stdout, Generated(F7))
    /\ pc' = "subplots3"
    /\ UNCHANGED <<input, files, run, okRuns, after1,
                   li, loaded, figs, current, ax, written, exit, failedAt>>

(***************************************************************************)
(* Figure 5.3: throughput.                                                 *)
(***************************************************************************)
Subplots3 ==
    /\ pc = "subplots3"
    /\ figs' = Append(figs, EmptyFigure)
    /\ current' = Len(figs) + 1
    /\ ax' = [ax EXCEPT ![3] = Len(figs) + 1]
    /\ pc' = "plot3"
    /\ UNCHANGED <<input, files, run, okRuns, after1, li, loaded, stdout, written, exit, failedAt>>

Plot3 ==
    /\ pc = "plot3"
    /\ figs' = [figs EXCEPT ![ax[3]] =
                  Plot(@, scenarios, throughput, color_scale, "Throughput (Req/Sec)", Ylim3)]
    /\ pc' = "annotate3"
    /\ UNCHANGED <<input, files, run, okRuns, after1,
                   li, loaded, current, ax, stdout, written, exit, failedAt>>

Annotate3 ==
    /\ pc = "annotate3"
    /\ figs' = [figs EXCEPT ![ax[3]] = Annotate(@, scenarios, throughput)]
    /\ pc' = "savefig3"
    /\ UNCHANGED <<input, files, run, okRuns, after1,
                   li, loaded, current, ax, stdout, written, exit, failedAt>>

Savefig3 ==
    /\ pc = "savefig3"
    /\ files' = SaveFig(F8, Dpi)
    /\ written' = Append(written, F8)
    /\ pc' = "print3"
    /\ UNCHANGED <<input, run, okRuns, after1,
                   li, loaded, figs, current, ax, stdout, exit, failedAt>>

(* The last statement: the script ends, with status 0. *)
Print3 ==
    /\ pc = "print3"
    /\ stdout' = Append(stdout, Generated(F8))
    /\ pc' = "done"
    /\ exit' = 0
    /\ okRuns' = okRuns + 1
    /\ after1' = IF okRuns = 0 THEN files ELSE after1
    /\ UNCHANGED <<input, files, run, li, loaded, figs, current, ax, written, failedAt>>

(***************************************************************************)
(* A charting or file-system call raises: nothing catches it, the          *)
(* traceback ends the process with status 1.                               *)
(***************************************************************************)
ChartOf(p) ==
    IF p \in {"subplots1", "bar1", "bar_label1", "savefig1"} THEN 1
    ELSE IF p \in {"subplots2", "bar2", "bar_label2", "savefig2"} THEN 2
    ELSE IF p \in {"subplots3", "plot3", "annotate3", "savefig3"} THEN 3
    ELSE 0

(* A variant of Fail: the exception is caught and the next chart started. *)
FailIsolated ==
    /\ ChartOf(pc) # 0
    /\ failedAt' = ChartOf(pc)
    /\ pc' = IF ChartOf(pc) = 1 THEN "subplots2"
             ELSE IF ChartOf(pc) = 2 THEN "subplots3" ELSE "done"
    /\ exit' = IF ChartOf(pc) = 3 THEN 0 ELSE exit
    /\ UNCHANGED <<input, files, run, okRuns, after1,
                   li, loaded, figs, current, ax, stdout, written>>

Fail ==
    /\ ChartOf(pc) # 0
    /\ failedAt' = ChartOf(pc)
    /\ pc' = "crashed"
    /\ exit' = 1
    /\ UNCHANGED <<input, files, run, okRuns, after1,
                   li, loaded, figs, current, ax, stdout, written>>

(* The exception is raised while savefig is writing: the file it opened  *)
(* is left incomplete. *)
FailWriting ==
    /\ pc \in {"savefig1", "savefig2", "savefig3"}
    /\ files' = [files EXCEPT ![OutputOrder[ChartOf(pc)]] = Partial]
    /\ failedAt' = ChartOf(pc)
    /\ pc' = "crashed"
    /\ exit' = 1
    /\ UNCHANGED <<input, run, okRuns, after1,
                   li, loaded, figs, current, ax, stdout, written>>

(***************************************************************************)
(* The script is run again on the same input: a new process, the output    *)
(* directory as the earlier runs left it.                                  *)
(***************************************************************************)
Rerun ==
    /\ pc \in {"done", "crashed"}
    /\ run < MaxRuns
    /\ run' = run + 1
    /\ pc' = "load"
    /\ li' = 1
    /\ loaded' = <<>>
    /\ figs' = <<>>
    /\ current' = 0
    /\ ax' = <<0, 0, 0>>
    /\ stdout' = <<>>
    /\ written' = <<>>
    /\ exit' = -1
    /\ failedAt' = 0
    /\ UNCHANGED <<input, files, okRuns, after1>>

Step ==
    \/ LoadScenario \/ CheckEmpty
    \/ Subplots1 \/ Bar1 \/ BarLabel1 \/ Savefig1 \/ Print1
    \/ Subplots2 \/ Bar2 \/ BarLabel2 \/ Savefig2 \/ Print2
    \/ Subplots3 \/ Plot3 \/ Annotate3 \/ Savefig3 \/ Print3

Next == Step \/ Fail \/ FailWriting \/ Rerun

Spec == Init /\ [][Next]_vars

(* A running process takes its next step: the interpreter does not stall. *)
FairSpec == Spec /\ WF_vars(Step \/ Fail \/ FailWriting)

(***************************************************************************)
(* Vocabulary of the properties.                                           *)
(***************************************************************************)
Has(s, e) == \E i \in 1..Len(s) : s[i] = e

IsPrefix(s, t) == Len(s) <= Len(t) /\ \A i \in 1..Len(s) : s[i] = t[i]

(* The confirmation lines among the lines printed, in order. *)
Confirmations == SelectSeq(stdout, LAMBDA l : l \in {Generated(f) : f \in FileNames})

(* The warnings among the lines printed, in order. *)
Warnings == SelectSeq(stdout, LAMBDA l : l \in {Warning(r) : r \in Pool})

(* The scenarios of the table whose source is there, in table order. *)
RECURSIVE Found(_)
Found(n) ==
    IF n = 0 THEN <<>>
    ELSE IF present[n] THEN Append(Found(n - 1), table[n]) ELSE Found(n - 1)

Missing == {i \in 1..Len(table) : ~present[i]}

Terminated == pc \in {"done", "crashed"}

(* The chart held by an image file. *)
ChartIn(f) == files[f].chart

(* The (scenario, value) pairs a chart shows: each mark under its tick label. *)
LabelAt(c, pos) == c.xticklabels[CHOOSE j \in 1..Len(c.xticks) : c.xticks[j] = pos]

Rendered(c) == {<<LabelAt(c, c.marks[i].x), c.marks[i].y>> : i \in 1..Len(c.marks)}

(* The metric a file's chart is of, per record. *)
MetricOf(f, r) == IF f = F6 THEN r.p95 ELSE IF f = F7 THEN r.abort ELSE r.tput

FileOf(k) == OutputOrder[k]

(* What Python prints for the values of the pool, written out by hand. *)
LatencyText ==
    [l \in {r.label : r \in Pool} |->
        IF l = Uniform.label THEN "39.88 ms"
        ELSE IF l = HotSpot.label THEN "145.27 ms" ELSE "100.00 ms"]

AbortText ==
    [l \in {r.label : r \in Pool} |->
        IF l = Uniform.label THEN "1.79%"
        ELSE IF l = HotSpot.label THEN "87.40%" ELSE "12.35%"]

ThroughputText ==
    [l \in {r.label : r \in Pool} |->
        IF l = Uniform.label THEN "326.5 RPS"
        ELSE IF l = HotSpot.label THEN "527.2 RPS" ELSE "400.0 RPS"]

(***************************************************************************)
(* C1: the confirmation lines of a run are 'Generated <file>' for the      *)
(* files the run has saved, in the order saved, one per file; a line for   *)
(* a file is printed only once the file is written, so at most the file    *)
(* saved last is still unconfirmed, and none is when the process is not    *)
(* about to print.                                                         *)
(***************************************************************************)
C1_ConfirmAfterWrite ==
    /\ Len(Confirmations) <= Len(written)
    /\ Len(written) <= Len(Confirmations) + 1
    /\ \A i \in 1..Len(Confirmations) :
          /\ Confirmations[i] = Generated(written[i])
          /\ files[written[i]].state = "image"
    /\ \A f \in FileNames :
          Has(stdout, "Generated " \o f) => Has(written, f) /\ files[f].state = "image"
    /\ pc \notin {"print1", "print2", "print3"} => Len(Confirmations) = Len(written)

C1_Witness ==
    /\ pc = "done"
    /\ written = OutputOrder
    /\ Confirmations = <<"Generated fig06_latency.png", "Generated fig07_abort.png",
                         "Generated fig08_throughput.png">>

(***************************************************************************)
(* C2: when every source of the table is there, each chart saved has one   *)
(* bar or point per scenario of the table, the i-th of them placed left    *)
(* of the (i+1)-th, standing over the tick labelled with the i-th          *)
(* scenario and showing the i-th scenario's value.                         *)
(***************************************************************************)
C2_OneMarkPerScenarioInOrder ==
    (\A i \in 1..Len(table) : present[i]) =>
        \A f \in FileNames : Has(written, f) =>
            LET c == ChartIn(f)
            IN /\ Len(c.marks) = Len(table)
               /\ \A i \in 1..Len(c.marks) :
                     /\ LabelAt(c, c.marks[i].x) = table[i].label
                     /\ c.marks[i].y = MetricOf(f, table[i])
                     /\ i > 1 => c.marks[i - 1].x < c.marks[i].x

C2_Witness ==
    /\ \A i \in 1..Len(table) : present[i]
    /\ Len(table) = 2
    /\ pc = "done"
    /\ written = OutputOrder
    /\ Len(ChartIn(F8).marks) = 2

(***************************************************************************)
(* C3, as claimed: for abort rates 1.79 and 87.40 the labels of the        *)
(* abort-rate chart are 1.8% and 87.4% (one decimal and a percent sign).   *)
(***************************************************************************)
C3_OneDecimalLabels ==
    (loaded = Golden /\ Has(written, F7)) =>
        /\ Len(ChartIn(F7).texts) = 2
        /\ ChartIn(F7).texts[1].s = "1.8%"
        /\ ChartIn(F7).texts[2].s = "87.4%"

(***************************************************************************)
(* C3, amended: for abort rates 1.79 and 87.40 the labels are 1.79% and    *)
(* 87.40%, and every abort-rate label is the value rounded to exactly two  *)
(* decimals followed by a percent sign, whatever the value's precision     *)
(* (12.346 is labelled 12.35%).                                            *)
(***************************************************************************)
C3_TwoDecimalLabels ==
    Has(written, F7) =>
        /\ Len(ChartIn(F7).texts) = Len(loaded)
        /\ \A i \in 1..Len(loaded) : ChartIn(F7).texts[i].s = AbortText[loaded[i].label]
        /\ loaded = Golden =>
              /\ ChartIn(F7).texts[1].s = "1.79%"
              /\ ChartIn(F7).texts[2].s = "87.40%"

C3_Witness ==
    /\ loaded = Golden
    /\ Has(written, F7)
    /\ ChartIn(F7).texts[1].s = "1.79%"
    /\ ChartIn(F7).texts[2].s = "87.40%"

C5_EmptyIsNoOpSuccess ==
    (pc # "load" /\ loaded = <<>>) =>
        /\ pc = "done"
        /\ exit = 0
        /\ written = <<>>
        /\ figs = <<>>
        /\ Confirmations = <<>>
        /\ stdout # <<>> /\ stdout[Len(stdout)] = "No data found."

C5_Witness ==
    /\ pc = "done"
    /\ loaded = <<>>
    /\ Len(table) = 2
    /\ Has(stdout, "No data found.")
    /\ \E f \in FileNames : files[f] = NoFile

(***************************************************************************)
(* C6, as claimed: a failure in one chart does not block the others: in a  *)
(* run ended by a failure, every chart but the failed one is written and   *)
(* confirmed, those after it included.                                     *)
(***************************************************************************)
C6_FailureIsolated ==
    pc = "crashed" =>
        \A k \in 1..3 : k # failedAt =>
            Has(written, FileOf(k)) /\ Has(stdout, Generated(FileOf(k)))

(***************************************************************************)
(* C6, amended: the charts are rendered one after another with no          *)
(* isolation of failures: a failure while rendering or saving chart k      *)
(* ends the run with exit status 1; the charts before k are written and    *)
(* confirmed, chart k is neither saved completely nor confirmed, and the   *)
(* charts after it are neither created, written nor confirmed in that run. *)
(***************************************************************************)
C6_FailureBlocksLater ==
    failedAt # 0 =>
        /\ pc = "crashed"
        /\ exit = 1
        /\ \A k \in 1..3 :
              IF k < failedAt
              THEN /\ Has(written, FileOf(k))
                   /\ Has(stdout, Generated(FileOf(k)))
                   /\ files[FileOf(k)].state = "image"
              ELSE /\ ~Has(written, FileOf(k))
                   /\ ~Has(stdout, Generated(FileOf(k)))
                   /\ k > failedAt => \A i \in 1..Len(figs) : i # ax[k]

C6_Witness ==
    /\ failedAt = 2
    /\ pc = "crashed"
    /\ written = <<F6>>
    /\ Confirmations = <<Generated(F6)>>

(***************************************************************************)
(* C7: a run that renders and ends with status 0 has written exactly       *)
(* fig06_latency.png, fig07_abort.png and fig08_throughput.png, each an    *)
(* image that replaced whatever was at its path; and whenever a run has    *)
(* ended with status 0, the output files and their contents are those the  *)
(* first such run left.                                                    *)
(***************************************************************************)
C7_RerunOverwritesSame ==
    /\ (pc = "done" /\ loaded # <<>>) =>
          /\ written = <<"fig06_latency.png", "fig07_abort.png", "fig08_throughput.png">>
          /\ \A f \in FileNames : files[f].state = "image" /\ files[f].dpi = Dpi
    /\ (pc = "done" /\ okRuns >= 1) => files = after1

C7_Witness ==
    /\ pc = "done"
    /\ okRuns = 2
    /\ run = 2
    /\ loaded # <<>>
    /\ files = after1
    /\ \A f \in FileNames : files[f].state = "image"

(***************************************************************************)
(* C8: a run is one linear pipeline that terminates.  The files saved and  *)
(* the confirmations printed are, in this order and each at most once,     *)
(* fig06_latency.png, fig07_abort.png, fig08_throughput.png; without a     *)
(* failure all three are saved; the process only moves forward; once a     *)
(* chart has failed, nothing more is saved or printed in that run, so      *)
(* neither that chart nor a later one is (the failing save itself may      *)
(* leave an incomplete file); and every run that starts ends.              *)
(***************************************************************************)
Rank(p) ==
    CASE p = "load" -> 0
      [] p = "subplots1" -> 1 [] p = "bar1" -> 2 [] p = "bar_label1" -> 3
      [] p = "savefig1" -> 4 [] p = "print1" -> 5
      [] p = "subplots2" -> 6 [] p = "bar2" -> 7 [] p = "bar_label2" -> 8
      [] p = "savefig2" -> 9 [] p = "print2" -> 10
      [] p = "subplots3" -> 11 [] p = "plot3" -> 12 [] p = "annotate3" -> 13
      [] p = "savefig3" -> 14 [] p = "print3" -> 15
      [] OTHER -> 16

C8_LinearPipeline ==
    /\ [](IsPrefix(written, OutputOrder))
    /\ [](IsPrefix(Confirmations, <<Generated(F6), Generated(F7), Generated(F8)>>))
    /\ []((pc = "done" /\ loaded # <<>>) => written = OutputOrder /\ failedAt = 0)
    /\ [][run' = run =>
            \/ Rank(pc') > Rank(pc)
            \/ pc = "load" /\ pc' = "load" /\ li' > li]_vars
    /\ [][(failedAt # 0 /\ run' = run) =>
            written' = written /\ stdout' = stdout /\ files' = files]_vars
    /\ [](failedAt # 0 =>
            \A k \in failedAt..3 :
                ~Has(written, FileOf(k)) /\ ~Has(stdout, Generated(FileOf(k))))
    /\ []<>Terminated

C8_Witness ==
    /\ run = 2
    /\ pc = "crashed"
    /\ failedAt = 3
    /\ written = <<F6, F7>>

(***************************************************************************)
(* C9: each chart saved carries one label per bar or point, the i-th       *)
(* placed at the i-th bar or point and reading the i-th value of the       *)
(* chart's own metric in the chart's format: '%.2f ms' for latency,        *)
(* '%.2f%%' for the abort rate, the value as Python prints a float         *)
(* followed by ' RPS' for throughput.                                      *)
(***************************************************************************)
C9_OwnValueLabels ==
    \A f \in FileNames : Has(written, f) =>
        LET c == ChartIn(f)
        IN /\ Len(c.texts) = Len(loaded)
           /\ Len(c.texts) = Len(c.marks)
           /\ \A i \in 1..Len(c.texts) :
                 /\ c.texts[i].x = c.marks[i].x
                 /\ c.texts[i].y = MetricOf(f, loaded[i])
                 /\ LabelAt(c, c.texts[i].x) = loaded[i].label
                 /\ c.texts[i].s =
                       IF f = F6 THEN LatencyText[loaded[i].label]
                       ELSE IF f = F7 THEN AbortText[loaded[i].label]
                       ELSE ThroughputText[loaded[i].label]

C9_Witness ==
    /\ loaded = Golden
    /\ written = OutputOrder
    /\ ChartIn(F6).texts[2].s = "145.27 ms"
    /\ ChartIn(F8).texts[1].s = "326.5 RPS"
    /\ ChartIn(F8).texts[2].s = "527.2 RPS"

(***************************************************************************)
(* C10: each file saved by the run holds the figure that was current when  *)
(* it was saved, the chart of its own metric, and keeps holding it while   *)
(* later figures are created: fig06_latency.png the bars of the p95        *)
(* latencies, fig07_abort.png the bars of the abort rates,                 *)
(* fig08_throughput.png the line of the throughputs.                       *)
(***************************************************************************)
C10_FileHoldsOwnChart ==
    /\ Has(written, F6) =>
          /\ ChartIn(F6) = figs[ax[1]]
          /\ ChartIn(F6).kind = "bar"
          /\ ChartIn(F6).ylabel = "p95 Latency (ms)"
          /\ [i \in 1..Len(ChartIn(F6).marks) |-> ChartIn(F6).marks[i].y] = p95_latency
    /\ Has(written, F7) =>
          /\ ChartIn(F7) = figs[ax[2]]
          /\ ChartIn(F7).kind = "bar"
          /\ ChartIn(F7).ylabel = "Abort Rate (%)"
          /\ [i \in 1..Len(ChartIn(F7).marks) |-> ChartIn(F7).marks[i].y] = abort_rates
    /\ Has(written, F8) =>
          /\ ChartIn(F8) = figs[ax[3]]
          /\ ChartIn(F8).kind = "line"
          /\ ChartIn(F8).ylabel = "Throughput (Req/Sec)"
          /\ [i \in 1..Len(ChartIn(F8).marks) |-> ChartIn(F8).marks[i].y] = throughput

C10_Witness ==
    /\ pc = "plot3"
    /\ Len(figs) = 3
    /\ current = 3
    /\ written = <<F6, F7>>
    /\ ChartIn(F6).kind = "bar"
    /\ ChartIn(F7).ylabel = "Abort Rate (%)"

====
